---- MODULE Spec2Model ----
(***************************************************************************)
(* Model of the conversation context manager of persona-ollama-demo        *)
(* (src/memory_manager.py) together with the part of the instrumentation   *)
(* sink it writes to (src/instrumentation.py).                             *)
(*                                                                         *)
(* A text is a sequence of words; the tiktoken encoder (a library outside  *)
(* the repository) is abstracted to one token per word.  Python lists are  *)
(* objects in a heap (a sequence of lists addressed by index) so that      *)
(* aliasing and in-place mutation of the caller's list are observable.     *)
(***************************************************************************)
EXTENDS Integers, Sequences, FiniteSets, TLC

VARIABLES
    config,           \* ContextManager.config
    encoder_cache,    \* ContextManager._encoder_cache : model -> encoding name
    metrics,          \* InstrumentationManager.metrics
    errors,           \* InstrumentationManager.errors
    pc,               \* "idle" before the call, "returned" after it
    call,             \* the call made: operation and the arguments as passed
    caller_messages,  \* contents of the caller's list object after the call
    result,           \* what the call gave back to its caller
    ran,              \* the private methods the call went through
    threads,          \* callers inside get_token_encoder: position and locals of each
    chat              \* a call of ollama.client.chat: position, locals and requests made

vars == <<config, encoder_cache, metrics, errors, pc, call, caller_messages, result, ran,
          threads, chat>>

----------------------------------------------------------------------------
(* Bounds of the model *)

MaxMsgs == 3      \* longest message history passed in
MaxKeep == 2      \* largest min_messages_to_keep configured

----------------------------------------------------------------------------
(* Input domains *)

ContextStrategy == {"truncate_oldest", "summarize_oldest", "keep_recent", "sliding_window"}

\* a strategy value that is not a ContextStrategy member (a plain str)
MalformedStrategy == "bogus"

\* what users write: a plain remark and a question
UserContents == { <<"hi">>, <<"what", "is", "weather">> }
AssistantContents == { <<"hi">> }

\* well-formed messages, and one record lacking the "content" key
WellFormedMessages ==
    [role : {"user"}, content : UserContents]
        \cup [role : {"assistant"}, content : AssistantContents]
MalformedMessage == [role |-> "user"]
Messages == WellFormedMessages \cup {MalformedMessage}

SystemPrompts == { <<>>, <<"Be", "brief">> }

Models == {"gpt-4"}

MaxContextValues == {0, 7, 16}
ThresholdValues == {6, 100}

RECURSIVE SeqsUpTo(_, _)
SeqsUpTo(S, n) ==
    IF n = 0 THEN { <<>> }
    ELSE LET shorter == SeqsUpTo(S, n - 1)
         IN shorter \cup { Append(s, x) : s \in { t \in shorter : Len(t) = n - 1 }, x \in S }

Histories == SeqsUpTo(Messages, MaxMsgs)

Max(a, b) == IF a >= b THEN a ELSE b
Min(a, b) == IF a <= b THEN a ELSE b

----------------------------------------------------------------------------
(* Python list slicing *)

\* normalisation of a slice bound against a list of length n
PyBound(i, n) == IF i < 0 THEN Max(n + i, 0) ELSE Min(i, n)

\* (mutant) the slice taken at the wrong end: s[:-start]
PySliceFrom_tail(s, start) == SubSeq(s, 1, PyBound(-start, Len(s)))

\* s[start:]
PySliceFrom(s, start) == SubSeq(s, PyBound(start, Len(s)) + 1, Len(s))

\* s[:stop]
PySliceTo(s, stop) == SubSeq(s, 1, PyBound(stop, Len(s)))

----------------------------------------------------------------------------
(* The heap of list objects: h[r] is the contents of the list with
   reference r.  Reference 1 is the list the caller passed in. *)

CallerRef == 1

Obj(h, r, ranNow) == [h |-> h, r |-> r, ran |-> ranNow]

\* (mutant) the slice written as an in-place deletion: del lst[:start]
ListSliceFrom_inplace(h, r, start) == [h |-> [h EXCEPT ![r] = PySliceFrom(h[r], start)], r |-> r]

\* lst[start:] builds a new list object
ListSliceFrom(h, r, start) == [h |-> Append(h, PySliceFrom(h[r], start)), r |-> Len(h) + 1]

\* lst.copy() builds a new list object
ListCopy(h, r) == [h |-> Append(h, h[r]), r |-> Len(h) + 1]

\* [first] + lst[start:] builds a new list object
ListConsSliceFrom(h, first, r, start) ==
    [h |-> Append(h, <<first>> \o PySliceFrom(h[r], start)), r |-> Len(h) + 1]

----------------------------------------------------------------------------
(* Token counting *)

\* the model strings the encoder cache is exercised with
CacheModels == {"gpt-4", "gpt-3.5-turbo", "llama3"}

\* "gpt-4" in model, "gpt-3.5" in model
ContainsGpt4(model) == model \in {"gpt-4"}
ContainsGpt35(model) == model \in {"gpt-3.5-turbo"}

\* tiktoken.encoding_for_model: gpt-4 and gpt-3.5-turbo both use cl100k_base
encoding_for_model(name) == "cl100k_base"

\* tiktoken.get_encoding(name)
get_encoding(name) == name

Resolved(encoding) == [raised |-> FALSE, encoding |-> encoding]
ResolutionError == [raised |-> TRUE, encoding |-> "none"]

\* tiktoken.get_encoding("cl100k_base") in a call where the library can
\* (generic_fails = FALSE) or cannot load the encoding
GenericEncoding(generic_fails) ==
    IF generic_fails THEN ResolutionError ELSE Resolved(get_encoding("cl100k_base"))

\* (mutant) no except clause: the failure of encoding_for_model leaves the method
TryResolve_reraise(model, fails, generic_fails) ==
    IF ContainsGpt4(model)
    THEN IF fails THEN ResolutionError ELSE Resolved(encoding_for_model("gpt-4"))
    ELSE IF ContainsGpt35(model)
    THEN IF fails THEN ResolutionError ELSE Resolved(encoding_for_model("gpt-3.5-turbo"))
    ELSE GenericEncoding(generic_fails)

\* (mutant) the except clause falls back to another encoding
TryResolve_gpt2(model, fails, generic_fails) ==
    IF ContainsGpt4(model)
    THEN IF fails THEN Resolved(get_encoding("gpt2")) ELSE Resolved(encoding_for_model("gpt-4"))
    ELSE IF ContainsGpt35(model)
    THEN IF fails THEN Resolved(get_encoding("gpt2"))
         ELSE Resolved(encoding_for_model("gpt-3.5-turbo"))
    ELSE GenericEncoding(generic_fails)

\* the try/except of get_token_encoder; fails says whether
\* tiktoken.encoding_for_model raises in this call, generic_fails whether
\* tiktoken.get_encoding does.  In the last branch a failure inside the try
\* block is caught and the same get_encoding call in the except clause
\* fails again, so the exception leaves the method.
TryResolve(model, fails, generic_fails) ==
    IF ContainsGpt4(model)
    THEN IF fails THEN GenericEncoding(generic_fails)
         ELSE Resolved(encoding_for_model("gpt-4"))
    ELSE IF ContainsGpt35(model)
    THEN IF fails THEN GenericEncoding(generic_fails)
         ELSE Resolved(encoding_for_model("gpt-3.5-turbo"))
    ELSE GenericEncoding(generic_fails)

\* the encoding get_token_encoder resolves a model to when nothing fails
ResolveEncoding(model) == TryResolve(model, FALSE, FALSE).encoding

\* (mutant) the store replaces the whole cache
CacheStore_reset(cache, model, encoding) == [m \in {model} |-> encoding]

\* self._encoder_cache[model] = encoding
CacheStore(cache, model, encoding) ==
    [m \in DOMAIN cache \cup {model} |-> IF m = model THEN encoding ELSE cache[m]]

\* get_token_encoder: the cache after asking for the encoder of a model
get_token_encoder(cache, model) ==
    IF model \in DOMAIN cache THEN cache
    ELSE CacheStore(cache, model, ResolveEncoding(model))

\* get_token_encoder as a call: the cache afterwards, the encoder returned,
\* and whether an exception left the method
get_token_encoder_call(cache, model, fails, generic_fails) ==
    IF model \in DOMAIN cache
    THEN [cache |-> cache, raised |-> FALSE, encoder |-> cache[model]]
    ELSE LET res == TryResolve(model, fails, generic_fails)
         IN IF res.raised
            THEN [cache |-> cache, raised |-> TRUE, encoder |-> "none"]
            ELSE LET stored == CacheStore(cache, model, res.encoding)
                 IN [cache |-> stored, raised |-> FALSE, encoder |-> stored[model]]

\* the tokens one word becomes: one under cl100k_base; an older encoding
\* with a smaller vocabulary splits it in two
WordTokens(encoding, w) ==
    IF encoding = "cl100k_base" THEN << <<encoding, w, 1>> >>
    ELSE << <<encoding, w, 1>>, <<encoding, w, 2>> >>

\* encoder.encode(text)
RECURSIVE Encode(_, _)
Encode(encoding, text) ==
    IF text = <<>> THEN <<>>
    ELSE WordTokens(encoding, Head(text)) \o Encode(encoding, Tail(text))

\* count_tokens as a call
count_tokens_call(cache, text, model, fails, generic_fails) ==
    LET got == get_token_encoder_call(cache, model, fails, generic_fails)
    IN [cache |-> got.cache, raised |-> got.raised,
        count |-> IF got.raised THEN 0 ELSE Len(Encode(got.encoder, text))]

count_tokens(text, model) == Len(Encode(ResolveEncoding(model), text))

\* msg["role"], msg["content"] raise KeyError on a record lacking the key
HasKeys(msg) == {"role", "content"} \subseteq DOMAIN msg
RaisesKeyError(messages) == \E i \in 1..Len(messages) : ~HasKeys(messages[i])

RoleText(msg) == <<msg.role>>

MessageTokens(msg, model) ==
    count_tokens(RoleText(msg), model) + count_tokens(msg.content, model) + 4

RECURSIVE ConversationTokens(_, _)
ConversationTokens(messages, model) ==
    IF messages = <<>> THEN 0
    ELSE MessageTokens(Head(messages), model) + ConversationTokens(Tail(messages), model)

\* the encoder cache after calculate_token_usage / estimate_tokens ran (or
\* ran up to its KeyError): count_tokens is reached iff there is a
\* non-empty prompt or at least one message
CacheAfterCounting(cache, system_prompt, messages, model) ==
    IF system_prompt # <<>> \/ messages # <<>>
    THEN get_token_encoder(cache, model) ELSE cache

\* (mutant) remaining_tokens without the clamp at 0
calculate_token_usage_unclamped(cfg, system_prompt, messages, model) ==
    LET system_tokens == IF system_prompt # <<>> THEN count_tokens(system_prompt, model) ELSE 0
        conversation_tokens == ConversationTokens(messages, model)
        total_tokens == system_tokens + conversation_tokens
        max_tokens == cfg.max_context_tokens
    IN [ total_tokens |-> total_tokens,
         system_tokens |-> system_tokens,
         conversation_tokens |-> conversation_tokens,
         remaining_tokens |-> max_tokens - total_tokens,
         max_tokens |-> max_tokens,
         utilization_percent |->
             IF max_tokens > 0 THEN [num |-> total_tokens * 100, den |-> max_tokens]
             ELSE [num |-> 0, den |-> 1] ]

\* calculate_token_usage on well-formed messages
calculate_token_usage(cfg, system_prompt, messages, model) ==
    LET system_tokens == IF system_prompt # <<>> THEN count_tokens(system_prompt, model) ELSE 0
        conversation_tokens == ConversationTokens(messages, model)
        total_tokens == system_tokens + conversation_tokens
        max_tokens == cfg.max_context_tokens
    IN [ total_tokens |-> total_tokens,
         system_tokens |-> system_tokens,
         conversation_tokens |-> conversation_tokens,
         remaining_tokens |-> Max(max_tokens - total_tokens, 0),
         max_tokens |-> max_tokens,
         \* (total_tokens / max_tokens) * 100 as a fraction, 0 when max_tokens <= 0
         utilization_percent |->
             IF max_tokens > 0 THEN [num |-> total_tokens * 100, den |-> max_tokens]
             ELSE [num |-> 0, den |-> 1] ]

\* (mutant) a warning threshold above the hard limit: utilization_percent > 150.0
is_near_limit_150(token_usage) ==
    token_usage.utilization_percent.num > 150 * token_usage.utilization_percent.den

\* (mutant) a lower warning threshold: utilization_percent > 50.0
is_near_limit_50(token_usage) ==
    token_usage.utilization_percent.num > 50 * token_usage.utilization_percent.den

\* TokenUsage.is_near_limit: utilization_percent > 80.0
is_near_limit(token_usage) ==
    token_usage.utilization_percent.num > 80 * token_usage.utilization_percent.den

\* (mutant) the hard limit taken as reached at equality
is_over_limit_geq(token_usage) == token_usage.total_tokens >= token_usage.max_tokens

\* TokenUsage.is_over_limit
is_over_limit(token_usage) == token_usage.total_tokens > token_usage.max_tokens

----------------------------------------------------------------------------
(* MessageSummarizer *)

Interrogatives == {"what", "how", "why", "when", "where"}

\* len(word) for the words texts are built from
WordLen(w) ==
    CASE w \in {","} -> 1
      [] w \in {"hi", "is", "of", "Be"} -> 2
      [] w \in {"and", "..."} -> 3
      [] w \in {"what", "User", "user", "with"} -> 4
      [] w \in {"input", "brief"} -> 5
      [] w \in {"Topics"} -> 6
      [] w \in {"weather", "covered", "Summary", "earlier"} -> 7
      [] w \in {"Previous", "provided", "guidance", "[Context", "Summary]"} -> 8
      [] w \in {"questions", "Assistant", "responses"} -> 9
      [] w \in {"discussion", "including:", "discussed:"} -> 10
      [] w \in {"information."} -> 12
      [] w \in {"conversation:"} -> 13
      [] OTHER -> 1

\* len(text) of the words joined by single spaces (a "," carries no space before it)
RECURSIVE CharLen(_)
CharLen(text) ==
    IF text = <<>> THEN 0
    ELSE WordLen(Head(text))
         + (IF Tail(text) # <<>> /\ Head(Tail(text)) # "," THEN 1 ELSE 0)
         + CharLen(Tail(text))

\* ', '.join(items) of a list of texts
RECURSIVE JoinComma(_)
JoinComma(items) ==
    IF items = <<>> THEN <<>>
    ELSE IF Len(items) = 1 THEN items[1]
    ELSE items[1] \o <<",">> \o JoinComma(Tail(items))

\* ' '.join(parts)
RECURSIVE JoinSpace(_)
JoinSpace(parts) ==
    IF parts = <<>> THEN <<>> ELSE Head(parts) \o JoinSpace(Tail(parts))

IsUser(msg) == msg.role = "user"
IsAssistant(msg) == msg.role = "assistant"

QuestionLike(content) == \E i \in 1..Len(content) : content[i] \in Interrogatives

\* msg.get("content", "")
ContentOf(msg) == IF "content" \in DOMAIN msg THEN msg.content ELSE <<>>

\* the entry appended to user_questions for one user message
QuestionEntry(msg) ==
    IF QuestionLike(ContentOf(msg)) THEN msg.content ELSE <<"User", "input">>

\* topics: words of user messages longer than 4 characters, in first-occurrence order
RECURSIVE TopicWords(_, _)
TopicWords(words, seen) ==
    IF words = <<>> THEN <<>>
    ELSE IF WordLen(Head(words)) > 4 /\ Head(words) \notin seen
         THEN <<Head(words)>> \o TopicWords(Tail(words), seen \cup {Head(words)})
         ELSE TopicWords(Tail(words), seen)

RECURSIVE UserWords(_)
UserWords(messages) ==
    IF messages = <<>> THEN <<>>
    ELSE (IF IsUser(Head(messages)) THEN ContentOf(Head(messages)) ELSE <<>>)
         \o UserWords(Tail(messages))

\* the longest prefix of words whose joined length is at most n characters
RECURSIVE FitChars(_, _)
FitChars(text, n) ==
    IF text = <<>> \/ CharLen(text) <= n THEN text
    ELSE FitChars(SubSeq(text, 1, Len(text) - 1), n)

\* the summary before it is cut: " ".join(summary_parts)
compose_summary(messages) ==
    LET users == SelectSeq(messages, IsUser)
        user_questions == [i \in 1..Len(users) |-> QuestionEntry(users[i])]
        topics == TopicWords(UserWords(messages), {})
        assistant_responses == SelectSeq(messages, IsAssistant)
        part1 == IF user_questions # <<>>
                 THEN << <<"Previous", "discussion", "covered", ToString(Len(user_questions)),
                           "user", "questions", "including:">>
                         \o JoinComma(PySliceTo(user_questions, 3)) >>
                 ELSE <<>>
        part2 == IF topics # <<>>
                 THEN << <<"Topics", "discussed:">>
                         \o JoinComma([i \in 1..Len(PySliceTo(topics, 5)) |-> <<topics[i]>>]) >>
                 ELSE <<>>
        part3 == IF assistant_responses # <<>>
                 THEN << <<"Assistant", "provided", ToString(Len(assistant_responses)),
                           "responses", "with", "guidance", "and", "information.">> >>
                 ELSE <<>>
    IN JoinSpace(part1 \o part2 \o part3)

\* the words of the f-string's literal part, "Summary of earlier conversation: "
SummaryPrefix == <<"Summary", "of", "earlier", "conversation:">>

\* summarize_messages(messages, target_tokens)
summarize_messages(messages, target_tokens) ==
    IF messages = <<>> THEN <<>>
    ELSE
    LET summary == compose_summary(messages)
        max_chars == target_tokens * 4
        fitted == IF CharLen(summary) > max_chars
                  THEN FitChars(summary, max_chars - 3) \o <<"...">>
                  ELSE summary
    IN SummaryPrefix \o fitted

\* len(summary[:max_chars-3] + "...") for a summary of n characters
cut_length(n, max_chars) == PyBound(max_chars - 3, n) + 3

\* len() of the string summarize_messages returns; the literal part ends
\* with a space
summary_length(messages, target_tokens) ==
    IF messages = <<>> THEN 0
    ELSE LET n == CharLen(compose_summary(messages))
             max_chars == target_tokens * 4
         IN CharLen(SummaryPrefix) + 1
            + (IF n > max_chars THEN cut_length(n, max_chars) ELSE n)

\* the default of the target_tokens parameter
DefaultTargetTokens == 500

\* (mutant) either condition triggers
should_summarize_or(cfg, token_usage) ==
    cfg.enable_auto_summarization
    \/ token_usage.conversation_tokens > cfg.summarize_threshold

\* should_summarize
should_summarize(cfg, token_usage) ==
    cfg.enable_auto_summarization
    /\ token_usage.conversation_tokens > cfg.summarize_threshold

----------------------------------------------------------------------------
(* The reduction strategies of ContextManager.  Each takes the heap and the
   reference of the list it is given, and yields the heap, the reference of
   the list it returns and the methods it went through. *)

\* (mutant) the loop body runs once at most
truncate_loop_once(cfg, system_prompt, h, r, model) ==
    IF Len(h[r]) > cfg.min_messages_to_keep
       /\ is_over_limit(calculate_token_usage(cfg, system_prompt, h[r], model))
    THEN ListSliceFrom(h, r, IF Len(h[r]) >= 2 THEN 2 ELSE 1)
    ELSE [h |-> h, r |-> r]

\* (mutant) the loop never looks at the usage
RECURSIVE truncate_loop_to_floor(_, _, _, _, _)
truncate_loop_to_floor(cfg, system_prompt, h, r, model) ==
    IF Len(h[r]) > cfg.min_messages_to_keep
    THEN LET s == ListSliceFrom(h, r, IF Len(h[r]) >= 2 THEN 2 ELSE 1)
         IN truncate_loop_to_floor(cfg, system_prompt, s.h, s.r, model)
    ELSE [h |-> h, r |-> r]

\* _truncate_oldest, the while loop
RECURSIVE truncate_loop(_, _, _, _, _)
truncate_loop(cfg, system_prompt, h, r, model) ==
    IF Len(h[r]) > cfg.min_messages_to_keep
    THEN IF ~is_over_limit(calculate_token_usage(cfg, system_prompt, h[r], model))
         THEN [h |-> h, r |-> r]
         ELSE IF Len(h[r]) >= 2
              THEN LET s == ListSliceFrom(h, r, 2)
                   IN truncate_loop(cfg, system_prompt, s.h, s.r, model)
              ELSE LET s == ListSliceFrom(h, r, 1)
                   IN truncate_loop(cfg, system_prompt, s.h, s.r, model)
    ELSE [h |-> h, r |-> r]

\* _truncate_oldest
truncate_oldest(cfg, system_prompt, h, r, model) ==
    IF Len(h[r]) <= cfg.min_messages_to_keep
    THEN Obj(h, r, {"_truncate_oldest"})
    ELSE LET c == ListCopy(h, r)
             out == truncate_loop(cfg, system_prompt, c.h, c.r, model)
         IN Obj(out.h, out.r, {"_truncate_oldest"})

\* (mutant) the half rounded up
messages_to_keep_ceil(cfg, messages) ==
    Max(cfg.min_messages_to_keep, (Len(messages) + 1) \div 2)

\* messages_to_keep = max(min_messages_to_keep, len(messages) // 2)
messages_to_keep(cfg, messages) == Max(cfg.min_messages_to_keep, Len(messages) \div 2)

\* (mutant) the guard left out
nothing_to_summarize_skipped(messages_to_summarize) == FALSE

\* if not messages_to_summarize
nothing_to_summarize(messages_to_summarize) == messages_to_summarize = <<>>

\* the synthetic message _summarize_oldest puts in front
summary_message(messages_to_summarize) ==
    [role |-> "system",
     content |-> <<"[Context", "Summary]">>
                 \o summarize_messages(messages_to_summarize, DefaultTargetTokens)]

\* _summarize_oldest
summarize_oldest(cfg, system_prompt, h, r, model) ==
    LET messages == h[r]
        unchanged == Obj(h, r, {"_summarize_oldest"})
    IN IF Len(messages) <= cfg.min_messages_to_keep THEN unchanged
       ELSE IF ~should_summarize(cfg, calculate_token_usage(cfg, system_prompt, messages, model))
       THEN unchanged
       ELSE LET keep == messages_to_keep(cfg, messages)
                messages_to_summarize == PySliceTo(messages, -keep)
            IN IF nothing_to_summarize(messages_to_summarize) THEN unchanged
               ELSE LET o == ListConsSliceFrom(h, summary_message(messages_to_summarize), r, -keep)
                    IN Obj(o.h, o.r, {"_summarize_oldest", "summarize_messages"})

\* (mutant) the loop guard len(recent_messages) > 0
RECURSIVE keep_recent_loop_to_empty(_, _, _, _, _)
keep_recent_loop_to_empty(cfg, system_prompt, h, r, model) ==
    IF Len(h[r]) > 0 /\ is_over_limit(calculate_token_usage(cfg, system_prompt, h[r], model))
    THEN LET s == ListSliceFrom(h, r, 1)
         IN keep_recent_loop_to_empty(cfg, system_prompt, s.h, s.r, model)
    ELSE [h |-> h, r |-> r]

\* (mutant) a do-while: the body runs once before the first test, and the
\* loop goes on as keep_recent_loop_to_empty
keep_recent_loop_body_first(cfg, system_prompt, h, r, model) ==
    IF Len(h[r]) > 1
    THEN LET s == ListSliceFrom(h, r, 1)
         IN keep_recent_loop_to_empty(cfg, system_prompt, s.h, s.r, model)
    ELSE [h |-> h, r |-> r]

\* _keep_recent, the while loop
RECURSIVE keep_recent_loop(_, _, _, _, _)
keep_recent_loop(cfg, system_prompt, h, r, model) ==
    IF Len(h[r]) > 1 /\ is_over_limit(calculate_token_usage(cfg, system_prompt, h[r], model))
    THEN LET s == ListSliceFrom(h, r, 1)
         IN keep_recent_loop(cfg, system_prompt, s.h, s.r, model)
    ELSE [h |-> h, r |-> r]

\* _keep_recent
keep_recent(cfg, system_prompt, h, r, model) ==
    LET max_messages == cfg.min_messages_to_keep
        recent == IF Len(h[r]) > max_messages
                  THEN ListSliceFrom(h, r, -max_messages)
                  ELSE [h |-> h, r |-> r]
        out == keep_recent_loop(cfg, system_prompt, recent.h, recent.r, model)
    IN Obj(out.h, out.r, {"_keep_recent"})

\* (mutant) the fallback summarizes the list _keep_recent returned
sliding_window_trimmed(cfg, system_prompt, h, r, model) ==
    LET kept == keep_recent(cfg, system_prompt, h, r, model)
        token_usage == calculate_token_usage(cfg, system_prompt, kept.h[kept.r], model)
    IN IF is_over_limit(token_usage) /\ Len(h[r]) > Len(kept.h[kept.r])
       THEN LET s == summarize_oldest(cfg, system_prompt, kept.h, kept.r, model)
            IN Obj(s.h, s.r, {"_sliding_window"} \cup kept.ran \cup s.ran)
       ELSE Obj(kept.h, kept.r, {"_sliding_window"} \cup kept.ran)

\* _sliding_window
sliding_window(cfg, system_prompt, h, r, model) ==
    LET kept == keep_recent(cfg, system_prompt, h, r, model)
        token_usage == calculate_token_usage(cfg, system_prompt, kept.h[kept.r], model)
    IN IF is_over_limit(token_usage) /\ Len(h[r]) > Len(kept.h[kept.r])
       THEN LET s == summarize_oldest(cfg, system_prompt, kept.h, r, model)
            IN Obj(s.h, s.r, {"_sliding_window"} \cup kept.ran \cup s.ran)
       ELSE Obj(kept.h, kept.r, {"_sliding_window"} \cup kept.ran)

\* the dispatch of optimize_context on config.strategy
apply_strategy(cfg, system_prompt, h, r, model) ==
    IF cfg.strategy = "truncate_oldest" THEN truncate_oldest(cfg, system_prompt, h, r, model)
    ELSE IF cfg.strategy = "summarize_oldest" THEN summarize_oldest(cfg, system_prompt, h, r, model)
    ELSE IF cfg.strategy = "keep_recent" THEN keep_recent(cfg, system_prompt, h, r, model)
    ELSE sliding_window(cfg, system_prompt, h, r, model)

----------------------------------------------------------------------------
(* InstrumentationManager.log_operation *)

NoError == "None"

\* the PerformanceMetrics appended to metrics (times left out)
Metric(operation, success, error, metadata) ==
    [operation |-> operation, success |-> success,
     error_message |-> error, metadata |-> metadata]

\* the sink after log_operation: every call appends to metrics, a failed
\* one also to errors
log_operation(sink, operation, success, error, metadata) ==
    [metrics |-> Append(sink.metrics, Metric(operation, success, error, metadata)),
     errors |-> IF success THEN sink.errors
                ELSE Append(sink.errors,
                            [operation |-> operation, success |-> success,
                             error |-> error, metadata |-> metadata])]

----------------------------------------------------------------------------
(* ContextManager.optimize_context *)

\* self.config.strategy.value raises AttributeError unless strategy is an enum member
HasValue(strategy) == strategy \in ContextStrategy

\* what a call leaves behind: whether an exception reached the caller, the
\* pair returned, whether the returned list is the caller's own list object,
\* the caller's list afterwards, the sink, the cache and the methods run
Outcome(raised, system, h, r, sink, cache, ranNow) ==
    [raised |-> raised,
     system |-> system,
     messages |-> IF raised THEN <<>> ELSE h[r],
     is_input |-> ~raised /\ r = CallerRef,
     caller |-> h[CallerRef],
     sink |-> sink, cache |-> cache, ran |-> ranNow]

optimize_context(cfg, sink, cache, system_prompt, messages, model) ==
    LET h0 == <<messages>>
        cache1 == CacheAfterCounting(cache, system_prompt, messages, model)
    IN IF RaisesKeyError(messages)
       THEN \* calculate_token_usage raised; the except clause runs
            IF HasValue(cfg.strategy)
            THEN Outcome(FALSE, system_prompt, h0, CallerRef,
                         log_operation(sink, "context_optimization", FALSE, "'content'",
                                       [strategy |-> cfg.strategy]),
                         cache1, {})
            ELSE \* evaluating strategy.value inside the except clause raises
                 Outcome(TRUE, <<>>, h0, CallerRef, sink, cache1, {})
       ELSE
       LET token_usage == calculate_token_usage(cfg, system_prompt, messages, model)
       IN IF ~is_near_limit(token_usage)
          THEN Outcome(FALSE, system_prompt, h0, CallerRef,
                       log_operation(sink, "context_optimization", TRUE, NoError,
                                     [strategy |-> "none",
                                      original_tokens |-> token_usage.total_tokens]),
                       cache1, {})
          ELSE
          LET o == apply_strategy(cfg, system_prompt, h0, CallerRef, model)
              new_token_usage == calculate_token_usage(cfg, system_prompt, o.h[o.r], model)
          IN IF HasValue(cfg.strategy)
             THEN Outcome(FALSE, system_prompt, o.h, o.r,
                          log_operation(sink, "context_optimization", TRUE, NoError,
                                        [strategy |-> cfg.strategy,
                                         original_tokens |-> token_usage.total_tokens,
                                         optimized_tokens |-> new_token_usage.total_tokens,
                                         messages_removed |-> Len(messages) - Len(o.h[o.r])]),
                          cache1, o.ran)
             ELSE \* strategy.value raises in the try block and again in the
                  \* except clause: the AttributeError reaches the caller
                  Outcome(TRUE, <<>>, o.h, o.r, sink, cache1, o.ran)

----------------------------------------------------------------------------
(* ContextManager.manage_context *)

EstimationModel == "gpt-3.5-turbo"

\* (mutant) the running total starts at 3, as for a reply being primed
estimate_tokens_primed(messages, model) == 3 + ConversationTokens(messages, model)

\* estimate_tokens on well-formed messages
estimate_tokens(messages, model) == ConversationTokens(messages, model)

\* optimized_messages.insert(0, msg) changes the list object in place
ListInsertFront(h, r, msg) == [h EXCEPT ![r] = <<msg>> \o h[r]]

\* optimized_messages = []
ListNew(h) == [h |-> Append(h, <<>>), r |-> Len(h) + 1]

\* (mutant) the total is tested before the message is added to it
message_fits_late(total_tokens, msg_tokens, max_tokens) == total_tokens <= max_tokens

\* if total_tokens + msg_tokens <= max_tokens
message_fits(total_tokens, msg_tokens, max_tokens) ==
    total_tokens + msg_tokens <= max_tokens

\* the loop over reversed(messages) of the TRUNCATE_OLDEST branch; i is the
\* index of the message looked at
RECURSIVE manage_truncate_loop(_, _, _, _, _, _)
manage_truncate_loop(h, r, messages, i, total_tokens, max_tokens) ==
    IF i = 0 THEN [h |-> h, r |-> r]
    ELSE LET msg_tokens == MessageTokens(messages[i], EstimationModel)
         IN IF message_fits(total_tokens, msg_tokens, max_tokens)
            THEN manage_truncate_loop(ListInsertFront(h, r, messages[i]), r, messages,
                                      i - 1, total_tokens + msg_tokens, max_tokens)
            ELSE [h |-> h, r |-> r]

\* int(len(messages) * 0.7)
KeepRatioCount(n) == (n * 7) \div 10

\* (mutant) the slice taken from the front: messages[:keep_count]
KeepLast_front(h, r, keep_count) ==
    IF Len(h[r]) > keep_count
    THEN [h |-> Append(h, PySliceTo(h[r], keep_count)), r |-> Len(h) + 1]
    ELSE [h |-> h, r |-> r]

\* messages[-keep_count:] if len(messages) > keep_count else messages
KeepLast(h, r, keep_count) ==
    IF Len(h[r]) > keep_count THEN ListSliceFrom(h, r, -keep_count) ELSE [h |-> h, r |-> r]

\* manage_context once the first call found the messages over budget;
\* SLIDING_WINDOW and unknown strategies recurse into TRUNCATE_OLDEST
manage_strategy(cfg, strategy, h, r) ==
    IF strategy = "summarize_oldest"
    THEN KeepLast(h, r, Max(2, KeepRatioCount(Len(h[r]))))
    ELSE IF strategy = "keep_recent"
    THEN KeepLast(h, r, Max(2, Min(Len(h[r]), 10)))
    ELSE LET n == ListNew(h)
         IN manage_truncate_loop(n.h, n.r, h[r], Len(h[r]), 0, cfg.max_context_tokens)

manage_context(sink, cache, messages, cfg, strategy) ==
    LET h0 == <<messages>>
        cache1 == CacheAfterCounting(cache, <<>>, messages, EstimationModel)
    IN IF RaisesKeyError(messages)
       THEN Outcome(TRUE, <<>>, h0, CallerRef, sink, cache1, {})
       ELSE IF estimate_tokens(messages, EstimationModel) <= cfg.max_context_tokens
       THEN Outcome(FALSE, <<>>, h0, CallerRef, sink, cache1, {})
       ELSE LET o == manage_strategy(cfg, strategy, h0, CallerRef)
            IN Outcome(FALSE, <<>>, o.h, o.r, sink, cache1, {})

----------------------------------------------------------------------------
(* The state machine: a ContextManager is constructed with a config, then
   one of its public operations is called. *)

Strategies == ContextStrategy \cup {MalformedStrategy}

Configs ==
    [ max_context_tokens : MaxContextValues,
      strategy : Strategies,
      summarize_threshold : ThresholdValues,
      min_messages_to_keep : 0..MaxKeep,
      enable_auto_summarization : BOOLEAN ]

NoCall == [op |-> "none", system_prompt |-> <<>>, messages |-> <<>>, model |-> "none",
           strategy |-> "none"]

NoResult == [raised |-> FALSE, system |-> <<>>, messages |-> <<>>, is_input |-> FALSE]

\* no chat call under way
NoChat == [pc |-> "none"]

Init ==
    /\ config \in Configs
    /\ encoder_cache = << >>
    /\ metrics = << >>
    /\ errors = << >>
    /\ pc = "idle"
    /\ call = NoCall
    /\ caller_messages = << >>
    /\ result = NoResult
    /\ ran = {}
    /\ threads = << >>
    /\ chat = NoChat

Returned(op, system_prompt, messages, model, strategy, out) ==
    /\ pc' = "returned"
    /\ call' = [op |-> op, system_prompt |-> system_prompt, messages |-> messages,
                model |-> model, strategy |-> strategy]
    /\ caller_messages' = out.caller
    /\ result' = [raised |-> out.raised, system |-> out.system,
                  messages |-> out.messages, is_input |-> out.is_input]
    /\ ran' = out.ran
    /\ encoder_cache' = out.cache
    /\ metrics' = out.sink.metrics
    /\ errors' = out.sink.errors
    /\ UNCHANGED <<config, threads, chat>>

OptimizeContext(system_prompt, messages, model) ==
    /\ pc = "idle"
    /\ Returned("optimize_context", system_prompt, messages, model, config.strategy,
                optimize_context(config, [metrics |-> metrics, errors |-> errors],
                                 encoder_cache, system_prompt, messages, model))

\* the caller hands over the manager's own config and its strategy
ManageContext(messages) ==
    /\ pc = "idle"
    /\ Returned("manage_context", <<>>, messages, EstimationModel, config.strategy,
                manage_context([metrics |-> metrics, errors |-> errors],
                               encoder_cache, messages, config, config.strategy))

Next ==
    \/ \E system_prompt \in SystemPrompts, messages \in Histories, model \in Models :
           OptimizeContext(system_prompt, messages, model)
    \/ \E messages \in Histories : ManageContext(messages)

Spec == Init /\ [][Next]_vars

----------------------------------------------------------------------------
(* calculate_token_usage called on its own (as get_memory_stats does), the
   snapshot and its two properties handed back *)

NoUsage == [total_tokens |-> 0, system_tokens |-> 0, conversation_tokens |-> 0,
            remaining_tokens |-> 0, max_tokens |-> 0,
            utilization_percent |-> [num |-> 0, den |-> 1]]

CalculateTokenUsage(system_prompt, messages, model) ==
    /\ pc = "idle"
    /\ pc' = "returned"
    /\ call' = [op |-> "calculate_token_usage", system_prompt |-> system_prompt,
                messages |-> messages, model |-> model, strategy |-> config.strategy]
    /\ caller_messages' = messages
    /\ encoder_cache' = CacheAfterCounting(encoder_cache, system_prompt, messages, model)
    /\ result' =
          IF RaisesKeyError(messages)
          THEN [raised |-> TRUE, usage |-> NoUsage,
                is_near_limit |-> FALSE, is_over_limit |-> FALSE]
          ELSE LET token_usage == calculate_token_usage(config, system_prompt, messages, model)
               IN [raised |-> FALSE, usage |-> token_usage,
                   is_near_limit |-> is_near_limit(token_usage),
                   is_over_limit |-> is_over_limit(token_usage)]
    /\ UNCHANGED <<config, metrics, errors, ran, threads, chat>>

NextUsage ==
    \E system_prompt \in SystemPrompts, messages \in Histories, model \in Models :
        CalculateTokenUsage(system_prompt, messages, model)

SpecUsage == Init /\ [][NextUsage]_vars

----------------------------------------------------------------------------
(* The encoder cache of the module-level context_manager, built with the
   default MemoryConfig: get_token_encoder and count_tokens called one after
   the other, any number of times.  fails and generic_fails are the
   environment's part: whether tiktoken.encoding_for_model and
   tiktoken.get_encoding raise in that call. *)

DefaultConfig ==
    [ max_context_tokens |-> 4000,
      strategy |-> "sliding_window",
      summarize_threshold |-> 3000,
      min_messages_to_keep |-> 4,
      enable_auto_summarization |-> TRUE ]

Texts == SystemPrompts \cup UserContents \cup { <<"user">>, <<"assistant">> }

NoEarlier == [text |-> <<>>, model |-> "none", count |-> 0]

InitDefault ==
    /\ config = DefaultConfig
    /\ encoder_cache = << >>
    /\ metrics = << >>
    /\ errors = << >>
    /\ pc = "idle"
    /\ call = [op |-> "none", earlier |-> NoEarlier]
    /\ caller_messages = << >>
    /\ result = NoResult
    /\ ran = {}
    /\ threads = << >>
    /\ chat = NoChat

GetTokenEncoder(model, fails, generic_fails) ==
    /\ pc = "idle"
    /\ LET got == get_token_encoder_call(encoder_cache, model, fails, generic_fails)
       IN /\ encoder_cache' = got.cache
          /\ result' = [raised |-> got.raised, encoder |-> got.encoder]
    /\ call' = [op |-> "get_token_encoder", model |-> model, fails |-> fails,
                generic_fails |-> generic_fails,
                miss |-> model \notin DOMAIN encoder_cache,
                before |-> encoder_cache, earlier |-> call.earlier]
    /\ UNCHANGED <<config, metrics, errors, pc, caller_messages, ran, threads, chat>>

\* earlier remembers the first count_tokens call of the run
CountTokens(text, model, fails, generic_fails) ==
    /\ pc = "idle"
    /\ LET counted == count_tokens_call(encoder_cache, text, model, fails, generic_fails)
       IN /\ encoder_cache' = counted.cache
          /\ result' = [raised |-> counted.raised, count |-> counted.count]
          /\ call' = [op |-> "count_tokens", text |-> text, model |-> model,
                      fails |-> fails, generic_fails |-> generic_fails,
                      miss |-> model \notin DOMAIN encoder_cache,
                      before |-> encoder_cache,
                      earlier |-> IF call.earlier = NoEarlier /\ ~counted.raised
                                  THEN [text |-> text, model |-> model,
                                        count |-> counted.count]
                                  ELSE call.earlier]
    /\ UNCHANGED <<config, metrics, errors, pc, caller_messages, ran, threads, chat>>

NextCache ==
    \/ \E model \in CacheModels, fails \in BOOLEAN, generic_fails \in BOOLEAN :
           GetTokenEncoder(model, fails, generic_fails)
    \/ \E text \in Texts, model \in CacheModels, fails \in BOOLEAN,
          generic_fails \in BOOLEAN :
           CountTokens(text, model, fails, generic_fails)

SpecCache == InitDefault /\ [][NextCache]_vars

----------------------------------------------------------------------------
(* Concurrent get_token_encoder calls on one ContextManager.  A thread can be
   switched out between the membership test, the library call, the store
   into the dictionary and the final read, so each is a step of its own. *)

MaxThreads == 2

Caches == UNION { [d -> {get_encoding("cl100k_base")}] : d \in SUBSET CacheModels }

NewThread(model) ==
    [pc |-> "check", model |-> model, fails |-> FALSE, generic_fails |-> FALSE,
     enc |-> "none", ret |-> "none"]

InitRace ==
    /\ config = DefaultConfig
    /\ encoder_cache \in Caches
    /\ metrics = << >>
    /\ errors = << >>
    /\ pc = "idle"
    /\ call = [op |-> "get_token_encoder", before |-> encoder_cache]
    /\ caller_messages = << >>
    /\ result = NoResult
    /\ ran = {}
    /\ \E n \in 1..MaxThreads :
          threads \in { [t \in 1..n |-> NewThread(ms[t])] : ms \in [1..n -> CacheModels] }
    /\ chat = NoChat

ThreadFrame == <<config, metrics, errors, pc, call, caller_messages, result, ran, chat>>

\* if model not in self._encoder_cache:
ThreadCheck(t) ==
    /\ threads[t].pc = "check"
    /\ threads' = [threads EXCEPT ![t].pc =
                      IF threads[t].model \in DOMAIN encoder_cache
                      THEN "read" ELSE "resolve"]
    /\ UNCHANGED encoder_cache
    /\ UNCHANGED ThreadFrame

\* the right-hand side of the assignment: the tiktoken call, with its
\* except clause
ThreadResolve(t, fails, generic_fails) ==
    /\ threads[t].pc = "resolve"
    /\ LET res == TryResolve(threads[t].model, fails, generic_fails)
       IN threads' = [threads EXCEPT
                         ![t].fails = fails,
                         ![t].generic_fails = generic_fails,
                         ![t].enc = res.encoding,
                         ![t].pc = IF res.raised THEN "raised" ELSE "store"]
    /\ UNCHANGED encoder_cache
    /\ UNCHANGED ThreadFrame

\* self._encoder_cache[model] = ...
ThreadStore(t) ==
    /\ threads[t].pc = "store"
    /\ encoder_cache' = CacheStore(encoder_cache, threads[t].model, threads[t].enc)
    /\ threads' = [threads EXCEPT ![t].pc = "read"]
    /\ UNCHANGED ThreadFrame

\* return self._encoder_cache[model]
ThreadRead(t) ==
    /\ threads[t].pc = "read"
    /\ threads' = [threads EXCEPT
                      ![t].ret = IF threads[t].model \in DOMAIN encoder_cache
                                 THEN encoder_cache[threads[t].model] ELSE "none",
                      ![t].pc = IF threads[t].model \in DOMAIN encoder_cache
                                THEN "done" ELSE "key_error"]
    /\ UNCHANGED encoder_cache
    /\ UNCHANGED ThreadFrame

NextRace ==
    \E t \in DOMAIN threads :
        \/ ThreadCheck(t)
        \/ \E fails \in BOOLEAN, generic_fails \in BOOLEAN :
               ThreadResolve(t, fails, generic_fails)
        \/ ThreadStore(t)
        \/ ThreadRead(t)

SpecRace == InitRace /\ [][NextRace]_vars

----------------------------------------------------------------------------
(* MessageSummarizer.summarize_messages called on its own with a token
   target *)

TargetTokenValues == {0, 1, 5, 30, 500}

Summarize(messages, target_tokens) ==
    /\ pc = "idle"
    /\ pc' = "returned"
    /\ call' = [op |-> "summarize_messages", messages |-> messages,
                target_tokens |-> target_tokens, earlier |-> NoEarlier]
    /\ caller_messages' = messages
    /\ result' =
          LET n == IF messages = <<>> THEN 0 ELSE CharLen(compose_summary(messages))
          IN [raised |-> FALSE,
              text |-> summarize_messages(messages, target_tokens),
              length |-> summary_length(messages, target_tokens),
              composed |-> n,
              cut |-> messages # <<>> /\ n > target_tokens * 4]
    /\ UNCHANGED <<config, encoder_cache, metrics, errors, ran, threads, chat>>

NextSummarize ==
    \E messages \in Histories, target_tokens \in TargetTokenValues :
        Summarize(messages, target_tokens)

SpecSummarize == InitDefault /\ [][NextSummarize]_vars

----------------------------------------------------------------------------
(* ollama.client.chat: the retry loop around requests.post.  posts is the
   outcome of every request sent so far, sleeps the multiples of
   retry_delay waited. *)

MaxRetries == 3

\* what one pass through the try block can come to: the content is returned,
\* one of the three except clauses takes the exception, or the body of the
\* response lacks data["message"]["content"] and the KeyError is not caught
PostOutcomes == {"ok", "connection_error", "timeout", "request_exception", "bad_body"}

\* the exception an except clause leaves in last_error
LastErrorOf(outcome) ==
    IF outcome \in {"connection_error", "timeout"} THEN "OllamaConnectionError"
    ELSE "RequestException"

RECURSIVE Pow2(_)
Pow2(n) == IF n = 0 THEN 1 ELSE 2 * Pow2(n - 1)

\* (mutant) the backoff also follows the last attempt
should_sleep_after_last(attempt, max_retries) == attempt < max_retries

\* if attempt < max_retries - 1
should_sleep(attempt, max_retries) == attempt < max_retries - 1

ChatFrame == <<config, encoder_cache, metrics, errors, pc, call, caller_messages,
               result, ran, threads>>

\* chat(...) is called: last_error = None, the loop is entered
ChatStart(max_retries) ==
    /\ chat.pc = "none"
    /\ chat' = [pc |-> "loop", max_retries |-> max_retries, attempt |-> 0,
                posts |-> <<>>, sleeps |-> <<>>, last_error |-> "none",
                ret |-> "none", error |-> "none"]
    /\ UNCHANGED ChatFrame

\* one iteration's try/except: the POST and what comes of it
ChatPost(outcome) ==
    /\ chat.pc = "loop"
    /\ chat.attempt < chat.max_retries
    /\ chat' =
          LET sent == [chat EXCEPT !.posts = Append(chat.posts, outcome)]
          IN IF outcome = "ok"
             THEN [sent EXCEPT !.pc = "returned", !.ret = "content"]
             ELSE IF outcome = "bad_body"
             THEN [sent EXCEPT !.pc = "raised", !.error = "KeyError"]
             ELSE IF should_sleep(chat.attempt, chat.max_retries)
             THEN [sent EXCEPT !.pc = "sleep", !.last_error = LastErrorOf(outcome)]
             ELSE [sent EXCEPT !.attempt = chat.attempt + 1,
                               !.last_error = LastErrorOf(outcome)]
    /\ UNCHANGED ChatFrame

\* time.sleep(retry_delay * (2 ** attempt)), then the next iteration
ChatSleep ==
    /\ chat.pc = "sleep"
    /\ chat' = [chat EXCEPT !.pc = "loop",
                            !.sleeps = Append(chat.sleeps, Pow2(chat.attempt)),
                            !.attempt = chat.attempt + 1]
    /\ UNCHANGED ChatFrame

\* raise last_error or Exception("Unknown error during chat")
ChatRaise ==
    /\ chat.pc = "loop"
    /\ chat.attempt >= chat.max_retries
    /\ chat' = [chat EXCEPT !.pc = "raised",
                            !.error = IF chat.last_error = "none" THEN "Exception"
                                      ELSE chat.last_error]
    /\ UNCHANGED ChatFrame

NextChat ==
    \/ \E max_retries \in 0..MaxRetries : ChatStart(max_retries)
    \/ \E outcome \in PostOutcomes : ChatPost(outcome)
    \/ ChatSleep
    \/ ChatRaise

SpecChat == InitDefault /\ [][NextChat]_vars

----------------------------------------------------------------------------
(* optimize_context under SUMMARIZE_OLDEST with the summary_length option of
   MemoryConfig set *)

SummaryLengthValues == {1, 5, 200}

ConfigsWithSummaryLength ==
    [ max_context_tokens : MaxContextValues \ {0},
      strategy : {"summarize_oldest"},
      summarize_threshold : ThresholdValues,
      min_messages_to_keep : 0..MaxKeep,
      enable_auto_summarization : {TRUE},
      summary_length : SummaryLengthValues ]

InitSummaryLength ==
    /\ config \in ConfigsWithSummaryLength
    /\ encoder_cache = << >>
    /\ metrics = << >>
    /\ errors = << >>
    /\ pc = "idle"
    /\ call = NoCall
    /\ caller_messages = << >>
    /\ result = NoResult
    /\ ran = {}
    /\ threads = << >>
    /\ chat = NoChat

NextSummaryLength ==
    \E system_prompt \in SystemPrompts, messages \in Histories, model \in Models :
        OptimizeContext(system_prompt, messages, model)

SpecSummaryLength == InitSummaryLength /\ [][NextSummaryLength]_vars

----------------------------------------------------------------------------
(* The reduction loops one iteration at a time.  result is the frame of the
   call under way: the working list, the iterations made so far, the calls
   of _keep_recent and _summarize_oldest made, the depth of the recursion of
   manage_context, and the index and running total of its loop.
   _summarize_oldest has no loop and is only ever given the messages of the
   call (lines 202 and 313): summarized is what it returns for them. *)

LoopFrame(messages) ==
    [raised |-> FALSE, messages |-> messages, iterations |-> 0,
     keep_recent_calls |-> 0, summarize_calls |-> 0, depth |-> 0,
     i |-> 0, total_tokens |-> 0, summarized |-> <<>>]

\* configs under which _summarize_oldest summarizes whenever it is reached
LoopConfigs ==
    [ max_context_tokens : MaxContextValues,
      strategy : Strategies,
      summarize_threshold : {6},
      min_messages_to_keep : 0..MaxKeep,
      enable_auto_summarization : {TRUE} ]

InitLoops ==
    /\ config \in LoopConfigs
    /\ encoder_cache = << >>
    /\ metrics = << >>
    /\ errors = << >>
    /\ pc = "idle"
    /\ call = NoCall
    /\ caller_messages = << >>
    /\ result = LoopFrame(<<>>)
    /\ ran = {}
    /\ threads = << >>
    /\ chat = NoChat

\* the usage of the working list
WorkingUsage == calculate_token_usage(config, call.system_prompt, result.messages, call.model)

\* optimize_context up to the dispatch on config.strategy
OptimizeBegin(system_prompt, messages, model) ==
    /\ pc = "idle"
    /\ call' = [op |-> "optimize_context", system_prompt |-> system_prompt,
                messages |-> messages, model |-> model, strategy |-> config.strategy]
    /\ result' = [LoopFrame(messages) EXCEPT
                     !.summarized =
                         IF RaisesKeyError(messages) THEN <<>>
                         ELSE LET o == summarize_oldest(config, system_prompt, <<messages>>,
                                                        CallerRef, model)
                              IN o.h[o.r]]
    /\ pc' = IF RaisesKeyError(messages) THEN "log"
             ELSE IF ~is_near_limit(calculate_token_usage(config, system_prompt,
                                                          messages, model))
             THEN "returned"
             ELSE "dispatch"
    /\ UNCHANGED <<config, encoder_cache, metrics, errors, caller_messages, ran,
                   threads, chat>>

\* the if/elif chain of optimize_context and the early return of _truncate_oldest
Dispatch ==
    /\ pc = "dispatch"
    /\ pc' = IF config.strategy = "truncate_oldest"
             THEN IF Len(result.messages) <= config.min_messages_to_keep
                  THEN "log" ELSE "truncate_loop"
             ELSE IF config.strategy = "summarize_oldest" THEN "summarize_oldest"
             ELSE "keep_recent"
    /\ UNCHANGED <<config, encoder_cache, metrics, errors, call, caller_messages,
                   result, ran, threads, chat>>

\* (mutant) the slice starts at 0: nothing is removed
oldest_removed_none(n) == 0

\* optimized_messages[2:] if len(optimized_messages) >= 2 else optimized_messages[1:]
oldest_removed(n) == IF n >= 2 THEN 2 ELSE 1

\* one test of the while loop of _truncate_oldest, and its body
TruncateStep ==
    /\ pc = "truncate_loop"
    /\ IF Len(result.messages) > config.min_messages_to_keep /\ is_over_limit(WorkingUsage)
       THEN /\ result' = [result EXCEPT
                            !.messages = PySliceFrom(@, oldest_removed(Len(@))),
                            !.iterations = @ + 1]
            /\ pc' = pc
       ELSE /\ pc' = "log"
            /\ UNCHANGED result
    /\ UNCHANGED <<config, encoder_cache, metrics, errors, call, caller_messages,
                   ran, threads, chat>>

\* _keep_recent up to its while loop
KeepRecentBegin ==
    /\ pc = "keep_recent"
    /\ result' = [result EXCEPT
                    !.messages = IF Len(@) > config.min_messages_to_keep
                                 THEN PySliceFrom(@, -config.min_messages_to_keep)
                                 ELSE @,
                    !.keep_recent_calls = @ + 1]
    /\ pc' = "keep_recent_loop"
    /\ UNCHANGED <<config, encoder_cache, metrics, errors, call, caller_messages,
                   ran, threads, chat>>

\* one test of the while loop of _keep_recent, and its body
KeepRecentStep ==
    /\ pc = "keep_recent_loop"
    /\ IF Len(result.messages) > 1 /\ is_over_limit(WorkingUsage)
       THEN /\ result' = [result EXCEPT !.messages = PySliceFrom(@, 1),
                                        !.iterations = @ + 1]
            /\ pc' = pc
       ELSE /\ pc' = IF config.strategy = "keep_recent" THEN "log" ELSE "sliding_window"
            /\ UNCHANGED result
    /\ UNCHANGED <<config, encoder_cache, metrics, errors, call, caller_messages,
                   ran, threads, chat>>

\* _sliding_window after _keep_recent returned
SlidingWindowCheck ==
    /\ pc = "sliding_window"
    /\ pc' = IF is_over_limit(WorkingUsage) /\ Len(call.messages) > Len(result.messages)
             THEN "summarize_oldest" ELSE "log"
    /\ UNCHANGED <<config, encoder_cache, metrics, errors, call, caller_messages,
                   result, ran, threads, chat>>

\* _summarize_oldest on the messages of the call
SummarizeOldest ==
    /\ pc = "summarize_oldest"
    /\ result' = [result EXCEPT !.messages = result.summarized, !.summarize_calls = @ + 1]
    /\ pc' = "log"
    /\ UNCHANGED <<config, encoder_cache, metrics, errors, call, caller_messages,
                   ran, threads, chat>>

\* the log_operation call that ends optimize_context, in the try block or in
\* the except clause: self.config.strategy.value raises when strategy has none
LogAndReturn ==
    /\ pc = "log"
    /\ result' = [result EXCEPT !.raised = ~HasValue(config.strategy)]
    /\ pc' = "returned"
    /\ UNCHANGED <<config, encoder_cache, metrics, errors, call, caller_messages,
                   ran, threads, chat>>

\* the caller calls manage_context with the manager's config and strategy
ManageBegin(messages) ==
    /\ pc = "idle"
    /\ call' = [op |-> "manage_context", system_prompt |-> <<>>, messages |-> messages,
                model |-> EstimationModel, strategy |-> config.strategy]
    /\ result' = LoopFrame(messages)
    /\ pc' = "manage_context"
    /\ UNCHANGED <<config, encoder_cache, metrics, errors, caller_messages, ran,
                   threads, chat>>

\* the body of manage_context up to the loop or the recursive call;
\* call.strategy is the strategy argument of the invocation under way
ManageEnter ==
    /\ pc = "manage_context"
    /\ IF RaisesKeyError(call.messages)
       THEN /\ result' = [result EXCEPT !.raised = TRUE]
            /\ pc' = "returned"
            /\ UNCHANGED call
       ELSE IF estimate_tokens(call.messages, EstimationModel) <= config.max_context_tokens
       THEN /\ pc' = "returned"
            /\ UNCHANGED <<call, result>>
       ELSE IF call.strategy = "truncate_oldest"
       THEN /\ result' = [result EXCEPT !.messages = <<>>, !.i = Len(call.messages),
                                        !.total_tokens = 0]
            /\ pc' = "manage_loop"
            /\ UNCHANGED call
       ELSE IF call.strategy \in {"summarize_oldest", "keep_recent"}
       THEN /\ LET o == manage_strategy(config, call.strategy, <<call.messages>>, CallerRef)
               IN result' = [result EXCEPT !.messages = o.h[o.r]]
            /\ pc' = "returned"
            /\ UNCHANGED call
       ELSE /\ call' = [call EXCEPT !.strategy = "truncate_oldest"]
            /\ result' = [result EXCEPT !.depth = @ + 1]
            /\ pc' = "manage_context"
    /\ UNCHANGED <<config, encoder_cache, metrics, errors, caller_messages, ran,
                   threads, chat>>

\* one round of the loop over reversed(messages)
ManageLoopStep ==
    /\ pc = "manage_loop"
    /\ IF result.i > 0
          /\ message_fits(result.total_tokens,
                          MessageTokens(call.messages[result.i], EstimationModel),
                          config.max_context_tokens)
       THEN /\ result' = [result EXCEPT
                            !.messages = <<call.messages[result.i]>> \o @,
                            !.total_tokens =
                                @ + MessageTokens(call.messages[result.i], EstimationModel),
                            !.i = @ - 1,
                            !.iterations = @ + 1]
            /\ pc' = pc
       ELSE /\ pc' = "returned"
            /\ UNCHANGED result
    /\ UNCHANGED <<config, encoder_cache, metrics, errors, call, caller_messages,
                   ran, threads, chat>>

NextLoops ==
    \/ \E system_prompt \in SystemPrompts, messages \in Histories, model \in Models :
           OptimizeBegin(system_prompt, messages, model)
    \/ Dispatch
    \/ TruncateStep
    \/ KeepRecentBegin
    \/ KeepRecentStep
    \/ SlidingWindowCheck
    \/ SummarizeOldest
    \/ LogAndReturn
    \/ \E messages \in Histories : ManageBegin(messages)
    \/ ManageEnter
    \/ ManageLoopStep

\* the steps of a call under way
Running ==
    \/ Dispatch
    \/ TruncateStep
    \/ KeepRecentBegin
    \/ KeepRecentStep
    \/ SlidingWindowCheck
    \/ SummarizeOldest
    \/ LogAndReturn
    \/ ManageEnter
    \/ ManageLoopStep

\* the interpreter runs the next statement of a call under way
SpecLoops == InitLoops /\ [][NextLoops]_vars /\ WF_vars(Running)

----------------------------------------------------------------------------
(* Properties *)

Optimized == pc = "returned" /\ call.op = "optimize_context"
Managed == pc = "returned" /\ call.op = "manage_context"
WellFormed == ~RaisesKeyError(call.messages)

\* the usage of the input of the call (of well-formed messages)
InputUsage == calculate_token_usage(config, call.system_prompt, call.messages, call.model)
\* the usage of what the call returned
OutputUsage == calculate_token_usage(config, result.system, result.messages, call.model)

InputTotal == InputUsage.total_tokens
UnderBudget == InputTotal <= config.max_context_tokens
\* utilization_percent <= 80
NotNear == config.max_context_tokens <= 0 \/ InputTotal * 100 <= 80 * config.max_context_tokens

ReturnedOriginal ==
    /\ ~result.raised
    /\ result.system = call.system_prompt
    /\ result.messages = call.messages

\* the last k elements of s
LastK(s, k) == SubSeq(s, Len(s) - k + 1, Len(s))
IsSuffix(t, s) == \E k \in 0..Len(s) : t = LastK(s, k)

Summarized == "summarize_messages" \in ran
ContextSummaryMarker == <<"[Context", "Summary]">>

\* the exception cases of optimize_context: a message without its keys, or
\* a strategy without .value reaching the statistics report
InternalFailure ==
    \/ ~WellFormed
    \/ (~HasValue(config.strategy) /\ ~NotNear)

\* C1: optimize_context never lets an exception reach its caller, and a
\* call in which an exception occurred returns the original pair.
C1_NeverRaises ==
    Optimized => /\ ~result.raised
                 /\ (InternalFailure => ReturnedOriginal)

C3_NotNearLimitIdentity ==
    (Optimized /\ WellFormed /\ NotNear) => (ReturnedOriginal /\ result.is_input /\ ran = {})

C3_Witness ==
    /\ Optimized /\ WellFormed /\ NotNear
    /\ config.max_context_tokens > 0
    /\ Len(call.messages) > config.min_messages_to_keep
    /\ InputTotal * 2 > config.max_context_tokens
    /\ result.messages = call.messages

\* C4: the sequence returned by optimize_context is never longer than the
\* input sequence.
C4_MonotonicShrink ==
    (Optimized /\ ~result.raised) => Len(result.messages) <= Len(call.messages)

\* a summarization whose result is as long as the input
C4_Witness ==
    /\ Optimized /\ ~result.raised /\ Summarized
    /\ Len(result.messages) = Len(call.messages)

\* C5: TruncateOldest returns at least min(len(input), min_messages_to_keep)
\* messages.
C5_TruncateFloor ==
    (Optimized /\ ~result.raised /\ config.strategy = "truncate_oldest")
        => Len(result.messages) >= Min(Len(call.messages), config.min_messages_to_keep)

\* C6: what TruncateOldest returns is a suffix of the input: its last k
\* messages, in order and unchanged.
C6_TruncateSuffix ==
    (Optimized /\ ~result.raised /\ config.strategy = "truncate_oldest")
        => IsSuffix(result.messages, call.messages)

C6_Witness ==
    /\ Optimized /\ ~result.raised /\ "_truncate_oldest" \in ran
    /\ Len(result.messages) > 0
    /\ Len(result.messages) < Len(call.messages)

\* C7: KeepRecent on a non-empty input returns a non-empty sequence whose
\* last element is the last input message.
C7_KeepRecentNonEmpty ==
    (Optimized /\ ~result.raised /\ config.strategy = "keep_recent" /\ call.messages # <<>>)
        => /\ result.messages # <<>>
           /\ result.messages[Len(result.messages)] = call.messages[Len(call.messages)]

\* KeepRecent stopped at one message that is still over the limit
C7_Witness ==
    /\ Optimized /\ ~result.raised /\ "_keep_recent" \in ran
    /\ config.strategy = "keep_recent"
    /\ config.min_messages_to_keep = 0
    /\ Len(call.messages) > 1
    /\ Len(result.messages) = 1
    /\ OutputUsage.total_tokens > config.max_context_tokens

\* C8: after a summarization the first element is a system message whose
\* content starts with the marker, and the rest are the last
\* max(min_messages_to_keep, len(input) // 2) input messages.
C8_SummaryShape ==
    (Optimized /\ ~result.raised /\ Summarized)
        => /\ result.messages # <<>>
           /\ result.messages[1].role = "system"
           /\ Len(result.messages[1].content) >= 2
           /\ SubSeq(result.messages[1].content, 1, 2) = ContextSummaryMarker
           /\ Tail(result.messages) =
                  LastK(call.messages,
                        Max(config.min_messages_to_keep, Len(call.messages) \div 2))

C8_Witness ==
    /\ Optimized /\ ~result.raised /\ Summarized
    /\ config.strategy = "summarize_oldest"
    /\ Len(call.messages) = 3
    /\ Len(result.messages) = 2

\* the older part messages[:-messages_to_keep] of the input is non-empty
OlderNonEmpty ==
    LET keep == Max(config.min_messages_to_keep, Len(call.messages) \div 2)
    IN keep > 0 /\ keep < Len(call.messages)

SummarizeCase ==
    /\ Optimized /\ ~result.raised /\ WellFormed
    /\ "_summarize_oldest" \in ran
    /\ Len(call.messages) > config.min_messages_to_keep
    /\ OlderNonEmpty

\* C9 (as claimed): summarization is performed whenever conversation_tokens
\* > summarize_threshold or enable_auto_summarization is true, and the
\* input is returned unchanged otherwise.
C9_TriggerEither ==
    SummarizeCase =>
        IF InputUsage.conversation_tokens > config.summarize_threshold
           \/ config.enable_auto_summarization
        THEN Summarized
        ELSE result.messages = call.messages

\* C9 (amended): summarization is performed exactly when
\* enable_auto_summarization is true and conversation_tokens >
\* summarize_threshold; otherwise the input is returned unchanged, also
\* when it is over budget with auto-summarization on.
C9_TriggerBoth ==
    SummarizeCase =>
        IF InputUsage.conversation_tokens > config.summarize_threshold
           /\ config.enable_auto_summarization
        THEN Summarized /\ result.messages[1].role = "system"
        ELSE ~Summarized /\ result.messages = call.messages

\* over budget, auto-summarization on, below the threshold: unchanged
C9_Witness ==
    /\ SummarizeCase
    /\ config.strategy = "summarize_oldest"
    /\ config.enable_auto_summarization
    /\ InputUsage.conversation_tokens <= config.summarize_threshold
    /\ InputTotal > config.max_context_tokens
    /\ result.messages = call.messages

\* C10: the list the caller passed to optimize_context or manage_context
\* holds the same elements in the same order after the call.
C10_InputNotMutated ==
    pc = "returned" => caller_messages = call.messages

\* KeepRecent working on the caller's own list object dropped messages
C10_Witness ==
    /\ Optimized /\ ~result.raised /\ "_keep_recent" \in ran
    /\ Len(call.messages) <= config.min_messages_to_keep
    /\ Len(result.messages) < Len(call.messages)
    /\ caller_messages = call.messages

----------------------------------------------------------------------------
(* Properties of calculate_token_usage (SpecUsage) *)

UsageReturned == pc = "returned" /\ call.op = "calculate_token_usage" /\ ~result.raised

\* C11: every TokenUsage has total = system + conversation, remaining =
\* max(max - total, 0) >= 0, utilization = total * 100 / max (0 when max is
\* 0), is_near_limit iff utilization > 80, is_over_limit iff total > max.
C11_UsageInvariants ==
    UsageReturned =>
        LET u == result.usage
            util == u.utilization_percent
        IN /\ u.total_tokens = u.system_tokens + u.conversation_tokens
           /\ u.max_tokens = config.max_context_tokens
           /\ u.remaining_tokens = Max(u.max_tokens - u.total_tokens, 0)
           /\ u.remaining_tokens >= 0
           /\ util.den > 0
           /\ u.max_tokens = 0 => util.num = 0
           /\ u.max_tokens > 0 => util.num * u.max_tokens = u.total_tokens * 100 * util.den
           /\ result.is_near_limit <=> (util.num > 80 * util.den)
           /\ result.is_over_limit <=> (u.total_tokens > u.max_tokens)

\* a snapshot over the hard limit, and one taken with max_tokens = 0
C11_Witness ==
    /\ UsageReturned
    /\ result.usage.max_tokens > 0
    /\ result.usage.total_tokens > result.usage.max_tokens
    /\ result.usage.remaining_tokens = 0
    /\ result.is_near_limit /\ result.is_over_limit

----------------------------------------------------------------------------
(* Properties of manage_context *)

\* the estimated token total of the messages handed to manage_context
ManagedEstimate == ConversationTokens(call.messages, EstimationModel)
WithinBudget == ManagedEstimate <= config.max_context_tokens
Delegating == config.strategy \in {"truncate_oldest", "sliding_window"}

\* C15: manage_context hands back the very list it was given, with its
\* content, for every strategy, whenever the estimated token total of the
\* messages is <= max_context_tokens.
C15_ManageIdentity ==
    (Managed /\ WellFormed /\ WithinBudget)
        => /\ ~result.raised
           /\ result.messages = call.messages
           /\ result.is_input
           /\ caller_messages = call.messages

\* an input exactly at the budget, under a strategy that would drop messages
C15_Witness ==
    /\ Managed /\ WellFormed
    /\ ManagedEstimate = config.max_context_tokens
    /\ Len(call.messages) = 2
    /\ config.strategy = "truncate_oldest"
    /\ result.is_input

\* C16: over budget, TRUNCATE_OLDEST and SLIDING_WINDOW return strictly
\* fewer messages than they were given, and the estimated token total of
\* what they return is <= max_context_tokens.
C16_TruncateWithinBudget ==
    (Managed /\ WellFormed /\ ~WithinBudget /\ Delegating)
        => /\ ~result.raised
           /\ Len(result.messages) < Len(call.messages)
           /\ ConversationTokens(result.messages, EstimationModel)
                 <= config.max_context_tokens

\* sliding_window over budget keeps two of three messages
C16_Witness ==
    /\ Managed /\ WellFormed /\ ~WithinBudget
    /\ config.strategy = "sliding_window"
    /\ Len(call.messages) = 3
    /\ Len(result.messages) = 2

\* C17: over budget on a non-empty input, TRUNCATE_OLDEST returns a list
\* whose last element is the last input message.
C17_KeepsLastMessage ==
    (Managed /\ WellFormed /\ ~WithinBudget /\ config.strategy = "truncate_oldest"
       /\ Len(call.messages) > 0)
        => /\ ~result.raised
           /\ Len(result.messages) > 0
           /\ result.messages[Len(result.messages)] = call.messages[Len(call.messages)]

\* int(len * 0.7), floored at 2 and capped at the length
SummarizeKeep(n) == Min(n, Max(2, (7 * n) \div 10))
\* the last 10 messages, at least 2, capped at the length
RecentKeep(n) == Min(n, Max(2, Min(n, 10)))

----------------------------------------------------------------------------
(* Properties of summarize_messages (SpecSummarize) *)

SummaryReturned == pc = "returned" /\ call.op = "summarize_messages"

\* the returned text starts with the words of a marker
StartsWithMarker ==
    /\ Len(result.text) >= Len(SummaryPrefix)
    /\ SubSeq(result.text, 1, Len(SummaryPrefix)) = SummaryPrefix

\* C19: the string summarize_messages returns has at most target_tokens * 4
\* characters; when the composed text is longer than that, it is that text
\* cut to the limit and ending with an ellipsis; and it carries no marker
\* prefix of its own.
C19_SummaryFits ==
    SummaryReturned =>
        /\ result.length <= call.target_tokens * 4
        /\ result.cut =>
              /\ result.text # <<>>
              /\ result.text[Len(result.text)] = "..."
              /\ result.length = call.target_tokens * 4
        /\ ~StartsWithMarker

----------------------------------------------------------------------------
(* Properties of the encoder cache (SpecCache) *)

Counted == call.op = "count_tokens"
EncoderAsked == call.op = "get_token_encoder"

\* C12: the count for (text, model) does not depend on the calls made
\* before: whenever count_tokens returns, its integer is the count of the
\* first call with the same arguments, and the count a manager with an
\* empty cache gives, whichever way its resolution goes.
C12_CountDeterministic ==
    (Counted /\ ~result.raised) =>
        /\ (call.earlier.text = call.text /\ call.earlier.model = call.model)
              => result.count = call.earlier.count
        /\ \A fails \in BOOLEAN :
              result.count =
                  count_tokens_call(<< >>, call.text, call.model, fails, FALSE).count

\* a count served from a cache filled by earlier calls, for arguments counted
\* before, in a call where the library would fail
C12_Witness ==
    /\ Counted /\ ~call.miss /\ call.fails
    /\ call.model = "gpt-4"
    /\ Cardinality(DOMAIN call.before) >= 2
    /\ call.earlier.text = call.text /\ call.earlier.model = call.model
    /\ call.text = <<"what", "is", "weather">>
    /\ ~result.raised /\ result.count = 3

\* tiktoken.encoding_for_model raised in the call made
ResolutionFailed ==
    /\ call.miss /\ call.fails
    /\ ContainsGpt4(call.model) \/ ContainsGpt35(call.model)

\* what the fallback promises of a call
FallbackHolds ==
    /\ ~result.raised
    /\ call.model \in DOMAIN encoder_cache
    /\ ResolutionFailed => encoder_cache[call.model] = "cl100k_base"
    /\ (EncoderAsked /\ ResolutionFailed) => result.encoder = "cl100k_base"
    /\ Counted => result.count >= 0

----------------------------------------------------------------------------
(* Properties of concurrent get_token_encoder calls (SpecRace) *)

Finished(t) == threads[t].pc \in {"done", "raised", "key_error"}
AllFinished == \A t \in DOMAIN threads : Finished(t)
Racers(model) == { t \in DOMAIN threads : threads[t].model = model }

\* C14: under every interleaving, no call ends on a missing cache entry,
\* the calls for one model that return all return a tokenizer of one family,
\* once all calls have finished the cache maps the model of every call that
\* returned to that family, and the entries of models nobody asked for are
\* the ones the cache had before.
C14_RaceBenign ==
    /\ \A t \in DOMAIN threads : threads[t].pc # "key_error"
    /\ \A t, u \in DOMAIN threads :
          (threads[t].pc = "done" /\ threads[u].pc = "done"
             /\ threads[t].model = threads[u].model)
          => /\ threads[t].ret = threads[u].ret
             /\ threads[t].ret = ResolveEncoding(threads[t].model)
    /\ AllFinished =>
          \A t \in DOMAIN threads :
              threads[t].pc = "done" =>
                  /\ threads[t].model \in DOMAIN encoder_cache
                  /\ encoder_cache[threads[t].model] = threads[t].ret
    /\ \A m \in DOMAIN call.before :
          m \in DOMAIN encoder_cache /\ encoder_cache[m] = call.before[m]
    /\ \A m \in DOMAIN encoder_cache \ DOMAIN call.before : Racers(m) # {}

\* two calls for the same uncached model both passed the membership test,
\* took different paths through the try/except, both stored and returned,
\* next to an entry of another model
C14_Witness ==
    /\ AllFinished
    /\ Len(threads) >= 2
    /\ threads[1].model = "gpt-4" /\ threads[2].model = "gpt-4"
    /\ threads[1].pc = "done" /\ threads[2].pc = "done"
    /\ threads[1].enc # "none" /\ threads[2].enc # "none"
    /\ threads[1].fails /\ ~threads[2].fails
    /\ DOMAIN call.before = {"llama3"}
    /\ DOMAIN encoder_cache = {"llama3", "gpt-4"}

----------------------------------------------------------------------------
(* Properties of ollama.client.chat (SpecChat) *)

ChatCalled == chat.pc # "none"
ChatOver == chat.pc \in {"returned", "raised"}
ConnectionFailures == {"connection_error", "timeout"}
AllConnectionFailures ==
    \A i \in 1..Len(chat.posts) : chat.posts[i] \in ConnectionFailures

\* at most max_retries requests; the content of the first response that
\* succeeds is returned and nothing is sent after it
RequestsAndReturn ==
    /\ Len(chat.posts) <= Max(chat.max_retries, 0)
    /\ \A i \in 1..Len(chat.posts) :
          chat.posts[i] = "ok" => (i = Len(chat.posts) /\ chat.pc = "returned")
    /\ chat.pc = "returned" =>
          /\ chat.ret = "content"
          /\ Len(chat.posts) > 0 /\ chat.posts[Len(chat.posts)] = "ok"

\* a wait of retry_delay * 2^k follows every failed attempt but the last
\* one the loop allows
WaitsBetween ==
    /\ \A k \in 1..Len(chat.sleeps) : chat.sleeps[k] = Pow2(k - 1)
    /\ Len(chat.sleeps) <= Len(chat.posts)
    /\ Len(chat.sleeps) <= Max(chat.max_retries - 1, 0)
    /\ (chat.pc = "loop" /\ chat.attempt < chat.max_retries)
          => Len(chat.sleeps) = Len(chat.posts)
    /\ (ChatOver /\ Len(chat.posts) > 0)
          => Len(chat.sleeps) = Len(chat.posts) - 1

\* C20 (as stated): chat sends at most max_retries requests, returns the
\* content of the first successful response and sends nothing after it;
\* when all max_retries requests failed with a connection error or a
\* timeout it raises OllamaConnectionError after exactly max_retries
\* requests; it waits between consecutive attempts, not after the last.
C20_RetryProtocol ==
    ChatCalled =>
        /\ RequestsAndReturn
        /\ (ChatOver /\ AllConnectionFailures)
              => /\ chat.pc = "raised"
                 /\ chat.error = "OllamaConnectionError"
                 /\ Len(chat.posts) = chat.max_retries
        /\ WaitsBetween

\* C20 (amended): the same for max_retries >= 1; with max_retries = 0 no
\* request is sent and a plain Exception is raised; and whatever the
\* failures were, a call that ran out of attempts raises the error of its
\* last attempt.
C20_RetryProtocolAmended ==
    ChatCalled =>
        /\ RequestsAndReturn
        /\ (ChatOver /\ AllConnectionFailures /\ chat.max_retries >= 1)
              => /\ chat.pc = "raised"
                 /\ chat.error = "OllamaConnectionError"
                 /\ Len(chat.posts) = chat.max_retries
        /\ (ChatOver /\ chat.max_retries = 0)
              => /\ chat.pc = "raised"
                 /\ chat.error = "Exception"
                 /\ chat.posts = <<>>
        /\ (chat.pc = "raised" /\ chat.error # "KeyError" /\ chat.max_retries >= 1)
              => /\ Len(chat.posts) = chat.max_retries
                 /\ chat.error = LastErrorOf(chat.posts[Len(chat.posts)])
        /\ WaitsBetween

\* three attempts that all failed to connect, two waits of 1 and 2 delays
C20_Witness ==
    /\ chat.pc = "raised"
    /\ chat.max_retries = 3
    /\ chat.posts = <<"connection_error", "timeout", "connection_error">>
    /\ chat.sleeps = <<1, 2>>
    /\ chat.error = "OllamaConnectionError"

----------------------------------------------------------------------------
(* Properties of the strategies behind optimize_context (Spec) *)

Truncated ==
    /\ Optimized /\ ~result.raised
    /\ config.strategy = "truncate_oldest" /\ "_truncate_oldest" \in ran

OutputTotal == OutputUsage.total_tokens
\* total_tokens of the system prompt with a list of messages
TotalOf(messages) ==
    calculate_token_usage(config, call.system_prompt, messages, call.model).total_tokens

\* C21: when _truncate_oldest returns, the usage recomputed for what it
\* returns is within the hard limit or no more than min_messages_to_keep
\* messages are left; a tail still over budget is returned, not an error;
\* and a non-empty result ends with the last input message.
C21_TruncateStops ==
    Truncated =>
        /\ OutputTotal <= config.max_context_tokens
              \/ Len(result.messages) <= config.min_messages_to_keep
        /\ IsSuffix(result.messages, call.messages)
        /\ Len(result.messages) > 0 =>
              result.messages[Len(result.messages)] = call.messages[Len(call.messages)]

\* the floor reached while still over budget
C21_Witness ==
    /\ Truncated
    /\ Len(call.messages) = 3
    /\ Len(result.messages) = 1
    /\ config.min_messages_to_keep = 1
    /\ OutputTotal > config.max_context_tokens
    /\ config.max_context_tokens > 0

\* how many messages _truncate_oldest removed
Removed == Len(call.messages) - Len(result.messages)
\* the working sequence before the last removal: two longer than the
\* result, or one longer when the last removal took the only message left
BeforeLastRemoval ==
    LastK(call.messages,
          Len(result.messages) + (IF Removed % 2 = 0 THEN 2 ELSE 1))

\* C22: _truncate_oldest drops messages from the front two at a time, one
\* only when a single message is left, and when it removed any, the
\* sequence before the last removal was over the hard limit and longer
\* than min_messages_to_keep.
C22_TruncateNoMoreThanNeeded ==
    (Truncated /\ Removed > 0) =>
        /\ Removed % 2 = 0 \/ Len(result.messages) = 0
        /\ IsSuffix(result.messages, call.messages)
        /\ TotalOf(BeforeLastRemoval) > config.max_context_tokens
        /\ Len(BeforeLastRemoval) > config.min_messages_to_keep

\* one pair removed brought the context within the limit
C22_Witness ==
    /\ Truncated /\ Removed = 2
    /\ Len(result.messages) = 1
    /\ OutputTotal <= config.max_context_tokens
    /\ config.max_context_tokens > 0


KeptRecent ==
    /\ Optimized /\ ~result.raised
    /\ config.strategy = "keep_recent" /\ "_keep_recent" \in ran

\* the lengths k <= cap of the suffixes of the input within the hard limit
FittingSuffixes(cap) ==
    { k \in 1..Min(cap, Len(call.messages)) :
          TotalOf(LastK(call.messages, k)) <= config.max_context_tokens }

\* the longest suffix of at most cap messages within the hard limit, or the
\* last message alone
LongestFitting(cap) ==
    IF FittingSuffixes(cap) = {} THEN LastK(call.messages, 1)
    ELSE LastK(call.messages,
               CHOOSE k \in FittingSuffixes(cap) : \A j \in FittingSuffixes(cap) : j <= k)

\* C23: on a non-empty input _keep_recent returns the longest suffix of at
\* most max(1, min_messages_to_keep) messages that is not over the hard
\* limit, or the most recent message alone when there is none.
C23_KeepRecentReference ==
    (KeptRecent /\ Len(call.messages) > 0)
        => result.messages = LongestFitting(Max(1, config.min_messages_to_keep))


Slid == Optimized /\ ~result.raised /\ "_sliding_window" \in ran

\* what _keep_recent and _summarize_oldest return for the input of the call
KeepRecentOfInput ==
    LET o == keep_recent(config, call.system_prompt, <<call.messages>>, CallerRef, call.model)
    IN o.h[o.r]
SummarizeOldestOfInput ==
    LET o == summarize_oldest(config, call.system_prompt, <<call.messages>>, CallerRef,
                              call.model)
    IN o.h[o.r]

\* the _keep_recent result is still over the hard limit and shorter than
\* the input
FallsBack ==
    /\ TotalOf(KeepRecentOfInput) > config.max_context_tokens
    /\ Len(KeepRecentOfInput) < Len(call.messages)

\* C24: _sliding_window returns what _keep_recent returns for the input,
\* unless that is still over the hard limit and shorter than the input:
\* then it returns what _summarize_oldest returns for the whole input.
C24_SlidingDispatch ==
    Slid => result.messages =
                IF FallsBack THEN SummarizeOldestOfInput ELSE KeepRecentOfInput

\* the fallback summarized the two oldest of three messages, which the
\* trimmed list would not have allowed
C24_Witness ==
    /\ Slid /\ FallsBack /\ Summarized
    /\ Len(call.messages) = 3
    /\ Len(KeepRecentOfInput) = 1
    /\ Len(result.messages) = 2
    /\ result.messages # KeepRecentOfInput


\* the records optimize_context left in the sink
FailedRecords == SelectSeq(metrics, LAMBDA m : ~m.success)
IdentityPath == WellFormed /\ NotNear
StrategyPath == WellFormed /\ ~NotNear

\* C25: every optimize_context call appends exactly one
\* "context_optimization" record: a success record with strategy "none" on
\* the identity path; on the strategy path a success record with the
\* configured strategy, the totals before and after and messages_removed =
\* len(input) - len(output) >= 0; on an internal failure one failure record,
\* which is also in the error list; and the error list is as long as the
\* list of failed records.
C25_OneRecordPerCall ==
    Optimized =>
        /\ Len(metrics) = 1
        /\ metrics[1].operation = "context_optimization"
        /\ Len(errors) = Len(FailedRecords)
        /\ IdentityPath =>
              /\ metrics[1].success
              /\ metrics[1].metadata.strategy = "none"
        /\ StrategyPath =>
              /\ metrics[1].success
              /\ metrics[1].metadata.strategy = config.strategy
              /\ metrics[1].metadata.original_tokens = InputTotal
              /\ metrics[1].metadata.optimized_tokens = OutputTotal
              /\ metrics[1].metadata.messages_removed
                    = Len(call.messages) - Len(result.messages)
              /\ metrics[1].metadata.messages_removed >= 0
        /\ ~WellFormed =>
              /\ ~metrics[1].success
              /\ Len(errors) = 1
              /\ errors[1].operation = "context_optimization"


\* the text _summarize_oldest put behind the marker of the synthetic message
SummaryTextOfResult ==
    SubSeq(result.messages[1].content, Len(ContextSummaryMarker) + 1,
           Len(result.messages[1].content))

\* C26: the summary inside the synthetic message of a SummarizeOldest
\* result has at most summary_length * 4 characters, the summarizer being
\* called with target_tokens = summary_length.
C26_SummarySizedByConfig ==
    (Optimized /\ ~result.raised /\ Summarized)
        => CharLen(SummaryTextOfResult) <= config.summary_length * 4


----------------------------------------------------------------------------
(* Termination of the reduction loops, under SpecLoops *)

UnknownOrSliding == config.strategy \notin {"truncate_oldest", "summarize_oldest", "keep_recent"}

\* the loops make no more iterations than the input has messages;
\* _sliding_window makes one call of _keep_recent and at most one of
\* _summarize_oldest; manage_context recurses once where its last two
\* branches are reached, and nowhere else
LoopBounds ==
    /\ result.iterations <= Len(call.messages)
    /\ result.keep_recent_calls <= 1
    /\ result.summarize_calls <= 1
    /\ result.depth <= 1
    /\ (pc = "returned" /\ call.op = "optimize_context" /\ UnknownOrSliding
        /\ result.keep_recent_calls + result.summarize_calls > 0)
           => result.keep_recent_calls = 1
    /\ (pc = "returned" /\ call.op = "manage_context" /\ ~result.raised)
           => (result.depth = 1
               <=> (UnknownOrSliding
                    /\ ConversationTokens(call.messages, EstimationModel)
                           > config.max_context_tokens))
    /\ result.depth = 1 => call.strategy = "truncate_oldest"

\* an iteration of _truncate_oldest or _keep_recent leaves a shorter working list
Shortens ==
    (pc \in {"truncate_loop", "keep_recent_loop"} /\ pc' = pc)
        => Len(result'.messages) < Len(result.messages)

\* C27: every reduction loop terminates: _truncate_oldest and _keep_recent
\* make at most len(input) iterations, each leaving a strictly shorter
\* working list; _sliding_window makes one call of _keep_recent and at most
\* one of _summarize_oldest; manage_context under SLIDING_WINDOW or an unknown
\* strategy recurses exactly once, into TRUNCATE_OLDEST; and every call of
\* optimize_context or manage_context that was begun comes to its end, by
\* returning or by an exception that reaches the caller
C27_LoopsTerminate ==
    /\ []LoopBounds
    /\ [][Shortens]_vars
    /\ (pc # "idle") ~> (pc = "returned")

\* _truncate_oldest ended after two iterations on a three-message input
C27_Witness ==
    /\ pc = "returned"
    /\ call.op = "optimize_context"
    /\ config.strategy = "truncate_oldest"
    /\ Len(call.messages) = 3
    /\ result.iterations = 2
    /\ result.messages = <<>>


----------------------------------------------------------------------------
(* Tokens before and after optimize_context *)

\* C28: the total_tokens of the pair returned by optimize_context is at most
\* the total_tokens of the input pair, on every path, the summarizing ones
\* included.
C28_NeverGrowsTokens ==
    (Optimized /\ ~result.raised /\ WellFormed) => OutputTotal <= InputTotal


----------------------------------------------------------------------------
(* The hard limit and the warning threshold *)

\* the private method config.strategy is dispatched to
StrategyMethod ==
    IF config.strategy = "truncate_oldest" THEN "_truncate_oldest"
    ELSE IF config.strategy = "summarize_oldest" THEN "_summarize_oldest"
    ELSE IF config.strategy = "keep_recent" THEN "_keep_recent"
    ELSE "_sliding_window"

\* C29: with max_context_tokens > 0, a usage computed by calculate_token_usage
\* that is over the limit is also near the limit, for the input of
\* optimize_context and for what it returns; and an input over the limit is
\* never returned by the identity path: the method of the configured
\* strategy runs on it.
C29_OverLimitIsNearLimit ==
    (Optimized /\ WellFormed /\ config.max_context_tokens > 0)
        => /\ is_over_limit(InputUsage) => is_near_limit(InputUsage)
           /\ is_over_limit(OutputUsage) => is_near_limit(OutputUsage)
           /\ InputTotal > config.max_context_tokens => StrategyMethod \in ran

\* an input over a positive limit, reduced by the configured strategy
C29_Witness ==
    /\ Optimized /\ WellFormed /\ ~result.raised
    /\ config.max_context_tokens > 0
    /\ InputTotal > config.max_context_tokens
    /\ StrategyMethod \in ran
    /\ Len(result.messages) < Len(call.messages)


----------------------------------------------------------------------------
(* Trimming twice *)

\* the list a strategy returns when given what the call returned
Again(strategy(_, _, _, _, _)) ==
    LET o == strategy(config, result.system, <<result.messages>>, CallerRef, call.model)
    IN o.h[o.r]

\* what optimize_context returns when given what the call returned
Reoptimized ==
    optimize_context(config, [metrics |-> metrics, errors |-> errors], encoder_cache,
                     result.system, result.messages, call.model)

\* C30: _truncate_oldest given its own output returns it unchanged, and so
\* does _keep_recent; optimizing again under either strategy what
\* optimize_context returned removes no further message.
C30_TrimmingIdempotent ==
    (Optimized /\ ~result.raised /\ WellFormed)
        => /\ (config.strategy = "truncate_oldest" /\ "_truncate_oldest" \in ran)
                  => Again(truncate_oldest) = result.messages
           /\ (config.strategy = "keep_recent" /\ "_keep_recent" \in ran)
                  => Again(keep_recent) = result.messages
           /\ config.strategy \in {"truncate_oldest", "keep_recent"}
                  => /\ ~Reoptimized.raised
                     /\ Reoptimized.messages = result.messages

\* _keep_recent removed a message and left more than one, still near the limit
C30_Witness ==
    /\ Optimized /\ ~result.raised /\ WellFormed
    /\ config.strategy = "keep_recent" /\ "_keep_recent" \in ran
    /\ Len(result.messages) < Len(call.messages)
    /\ Len(result.messages) > 1
    /\ is_near_limit(OutputUsage)

====
